---- MODULE Spec2Model ----
(***************************************************************************)
(* Model of scripts/generate_docs.js: the documentation build pipeline of  *)
(* date-fns (extract JSDoc records per file, assemble entries, group them  *)
(* by category, inject static documents, write dist/date_fns_docs.json).   *)
(*                                                                         *)
(* JavaScript values are modelled as tagged records:                       *)
(*   undefined  [tag |-> "undefined"]     null  [tag |-> "null"]           *)
(*   an array   [tag |-> "array", items |-> <<...>>]                       *)
(*   a thrown exception  [tag |-> "throw", error |-> "TypeError"]          *)
(* A parameter name is the sequence of its dot-separated segments:         *)
(* "options.year" is <<"options", "year">>, "date" is <<"date">>.          *)
(***************************************************************************)
EXTENDS Integers, Sequences, FiniteSets, TLC

VARIABLES
  \* paramsToTree applied to a drawn parameter list (SpecTree)
  tIn, tOut, tOut2, tPc,
  \* groupDocs applied to drawn configuration and entries (SpecGroup)
  gGroups, gDocs, gOut, gPc,
  \* the pipeline (Spec)
  pc,           \* the stage of the promise chain of lines 10-14
  fileIdx,      \* index into listFiles() of the fold's current file
  stream,       \* per file: the state of its jsdoc-parse stream
  data,         \* per file: the records whose text the stream has delivered
  acc,          \* the accumulator threaded through the extraction fold
  docs,         \* the assembled entries (result of generateDocsFromSource)
  docsFileObj,  \* the grouped mapping
  staticDocs,   \* docsConfig.staticDocs
  reads,        \* per static document: the state of its fsp.readFile
  err,          \* the error the run failed with, and the stage it came from
  exitStatus,   \* the status the process exits with
  outFile       \* dist/date_fns_docs.json

treeVars == <<tIn, tOut, tOut2, tPc>>
groupVars == <<gGroups, gDocs, gOut, gPc>>
pipeVars == <<pc, fileIdx, stream, data, acc, docs, docsFileObj, staticDocs,
              reads, err, exitStatus, outFile>>
vars == <<tIn, tOut, tOut2, tPc, gGroups, gDocs, gOut, gPc,
          pc, fileIdx, stream, data, acc, docs, docsFileObj, staticDocs,
          reads, err, exitStatus, outFile>>

(***************************************************************************)
(* Bounds of the model.                                                    *)
(***************************************************************************)
MaxParams == 3
MaxGroups == 2
MaxDocs == 2
NumFiles == 2
MaxRecords == 3
MaxStatic == 2

(***************************************************************************)
(* JavaScript values.                                                      *)
(***************************************************************************)
Undefined == [tag |-> "undefined"]
Null == [tag |-> "null"]
Arr(s) == [tag |-> "array", items |-> s]
Throw(e) == [tag |-> "throw", error |-> e]

Max(S) == CHOOSE m \in S : \A n \in S : n <= m

(***************************************************************************)
(* The three machines of the module share no variable: each specification  *)
(* leaves the variables of the others at these values.                     *)
(***************************************************************************)
GroupIdle ==
  /\ gGroups = <<>> /\ gDocs = <<>> /\ gOut = Undefined /\ gPc = "idle"

TreeIdle ==
  /\ tIn = Undefined /\ tOut = Undefined /\ tOut2 = Undefined /\ tPc = "idle"

NoError == [error |-> "none", stage |-> "none"]

PipeIdle ==
  /\ pc = "idle" /\ fileIdx = 1
  /\ stream = <<>> /\ data = <<>> /\ acc = <<>> /\ docs = <<>>
  /\ docsFileObj = Undefined /\ staticDocs = <<>> /\ reads = <<>>
  /\ err = NoError /\ exitStatus = 0 /\ outFile = Undefined

(***************************************************************************)
(* paramsToTree (lines 136-170).                                           *)
(***************************************************************************)
\* name.indexOf('.') >= 0
HasDot(name) == Len(name) >= 2

\* name.substring(0, indexOfDot); substring(0, -1) is the empty string
prefixOf(name) == IF HasDot(name) THEN <<name[1]>> ELSE <<"">>

\* name.substring(indexOfDot + 1); substring(0) is the whole name
suffixOf(name) == IF HasDot(name) THEN Tail(name) ELSE name

\* params.reduce((result, {name}, index) => { result[name] = index ... }, {}):
\* a later parameter of the same name overwrites the index
paramIndices(params) ==
  [n \in {params[i].name : i \in DOMAIN params} |->
     Max({i \in DOMAIN params : params[i].name = n})]

\* indexOfDot >= 0 && !isProperty
\* (variant that drops the dot test)
shouldNestAlways(param) == ~param.isProperty
shouldNest(param) == HasDot(param.name) /\ ~param.isProperty

\* param.name = name.substring(indexOfDot + 1); param.isProperty = true
\* (variant that forgets to set isProperty)
markPropertyUnmarked(param) == [param EXCEPT !.name = suffixOf(param.name)]
markProperty(param) ==
  [param EXCEPT !.name = suffixOf(param.name), !.isProperty = TRUE]

\* if (!parent.props) parent.props = [param] else parent.props.push(param)
\* (variant that always replaces the list)
pushPropOverwrite(parent, param) == [parent EXCEPT !.props = Arr(<<param>>)]
pushProp(parent, param) ==
  IF parent.props.tag = "undefined"
    THEN [parent EXCEPT !.props = Arr(<<param>>)]
    ELSE [parent EXCEPT !.props = Arr(Append(parent.props.items, param))]

\* One call of the .map callback on params[i]; params is the cloned array the
\* callback mutates in place, indices the lookup built before the pass.
\* A prefix that names no parameter makes parent undefined, and reading
\* parent.props throws a TypeError.
\* (variant that tolerates a missing parent instead of throwing)
mapParamGuarded(params, indices, i) ==
  LET param == params[i]
      prefix == prefixOf(param.name)
  IN  IF ~shouldNest(param) THEN Arr(params)
      ELSE IF prefix \notin DOMAIN indices
        THEN Arr([params EXCEPT ![i] = markProperty(param)])
      ELSE LET parentIndex == indices[prefix]
               nested == markProperty(param)
               params1 == [params EXCEPT ![i] = nested]
           IN  Arr([params1 EXCEPT
                      ![parentIndex] = pushProp(params1[parentIndex], nested)])
mapParam(params, indices, i) ==
  LET param == params[i]
      prefix == prefixOf(param.name)
  IN  IF ~shouldNest(param) THEN Arr(params)
      ELSE IF prefix \notin DOMAIN indices THEN Throw("TypeError")
      ELSE LET parentIndex == indices[prefix]
               nested == markProperty(param)
               params1 == [params EXCEPT ![i] = nested]
           IN  Arr([params1 EXCEPT
                      ![parentIndex] = pushProp(params1[parentIndex], nested)])

RECURSIVE mapParams(_, _, _)
mapParams(params, indices, i) ==
  IF i > Len(params) THEN Arr(params)
  ELSE LET r == mapParam(params, indices, i)
       IN  IF r.tag = "throw" THEN r ELSE mapParams(r.items, indices, i + 1)

\* .filter(param => !param.isProperty)
filterTopLevel(params) == SelectSeq(params, LAMBDA p : ~p.isProperty)

paramsToTree(dirtyParams) ==
  IF dirtyParams.tag \in {"undefined", "null"} THEN Null
  ELSE LET params == dirtyParams.items    \* cloneDeep: the input is not mutated
           mapped == mapParams(params, paramIndices(params), 1)
       IN  IF mapped.tag = "throw" THEN mapped
           ELSE Arr(filterTopLevel(mapped.items))

(***************************************************************************)
(* Parameters drawn for the tree builder.                                  *)
(***************************************************************************)
Param(name, optional, isProperty) ==
  [name |-> name, optional |-> optional, isProperty |-> isProperty,
   props |-> Undefined]

ParamSet ==
  { Param(<<"date">>, FALSE, FALSE),
    Param(<<"options">>, TRUE, FALSE),
    Param(<<"options", "year">>, FALSE, FALSE),
    Param(<<"options", "locale">>, TRUE, FALSE),
    Param(<<"options", "date", "unit">>, TRUE, FALSE),
    Param(<<"locale", "code">>, FALSE, FALSE),
    Param(<<"options">>, FALSE, TRUE),
    Param(<<"options", "year">>, TRUE, TRUE) }

SeqsUpTo(S, n) == UNION {[1..k -> S] : k \in 0..n}

ParamLists == {Undefined} \cup {Arr(s) : s \in SeqsUpTo(ParamSet, MaxParams)}

(***************************************************************************)
(* JavaScript objects used as maps. keys holds the own string keys in      *)
(* creation order, val their values. A read of a key that is not an own    *)
(* key falls through to Object.prototype; enumeration (Object.keys,        *)
(* JSON.stringify) lists array-index keys first, in ascending numeric      *)
(* order, then the other keys in creation order.                           *)
(***************************************************************************)
EmptyObj == [tag |-> "object", keys |-> <<>>, val |-> [k \in {} |-> Undefined]]

\* Property names every plain object inherits (methods of Object.prototype).
ObjectPrototypeKeys == {"constructor"}

\* Canonical array-index strings among the keys of the model.
ArrayIndexValue == [k \in {"0", "1", "2"} |-> CASE k = "0" -> 0 [] k = "1" -> 1 [] k = "2" -> 2]
IsArrayIndex(k) == k \in DOMAIN ArrayIndexValue

HasOwn(obj, k) == k \in DOMAIN obj.val

\* obj[k]
Get(obj, k) ==
  IF HasOwn(obj, k) THEN obj.val[k]
  ELSE IF k \in ObjectPrototypeKeys THEN [tag |-> "function"]
  ELSE Undefined

\* obj[k] = v
Set(obj, k, v) ==
  [obj EXCEPT
     !.keys = IF HasOwn(obj, k) THEN @ ELSE Append(@, k),
     !.val = [x \in DOMAIN obj.val \cup {k} |-> IF x = k THEN v ELSE obj.val[x]]]

RECURSIVE SortByIndex(_)
SortByIndex(S) ==
  IF S = {} THEN <<>>
  ELSE LET m == CHOOSE k \in S : \A o \in S : ArrayIndexValue[k] <= ArrayIndexValue[o]
       IN  <<m>> \o SortByIndex(S \ {m})

\* The order in which JSON.stringify and Object.keys visit the own keys.
OwnKeys(obj) ==
  SortByIndex({obj.keys[i] : i \in {j \in DOMAIN obj.keys : IsArrayIndex(obj.keys[j])}})
    \o SelectSeq(obj.keys, LAMBDA k : ~IsArrayIndex(k))

\* JavaScript truthiness of the values of the model.
Truthy(v) == v.tag \notin {"undefined", "null"}

(***************************************************************************)
(* buildGroupsTemplate (lines 115-120) and groupDocs (lines 103-108).      *)
(***************************************************************************)
RECURSIVE buildGroupsTemplateFrom(_, _, _)
buildGroupsTemplateFrom(groups, i, obj) ==
  IF i > Len(groups) THEN obj
  ELSE buildGroupsTemplateFrom(groups, i + 1, Set(obj, groups[i], Arr(<<>>)))

buildGroupsTemplate(groups) == buildGroupsTemplateFrom(groups, 1, EmptyObj)

\* acc[doc.category] || []
\* (variant without the || [] fallback)
categoryListUnguarded(obj, category) == Get(obj, category)
categoryList(obj, category) ==
  IF Truthy(Get(obj, category)) THEN Get(obj, category) ELSE Arr(<<>>)

\* list.push(item): a TypeError when list is undefined or has no push method
\* (variant that adds at the front, like unshift)
pushPrepend(list, item) ==
  IF list.tag = "array" THEN Arr(<<item>> \o list.items) ELSE Throw("TypeError")
push(list, item) ==
  IF list.tag = "array" THEN Arr(Append(list.items, item)) ELSE Throw("TypeError")

\* (acc[doc.category] = acc[doc.category] || []).push(doc)
groupDoc(obj, doc) ==
  LET list == categoryList(obj, doc.category)
      pushed == push(list, doc)
  IN  IF pushed.tag = "throw" THEN pushed ELSE Set(obj, doc.category, pushed)

RECURSIVE groupDocsFrom(_, _, _)
groupDocsFrom(entries, i, obj) ==
  IF i > Len(entries) THEN obj
  ELSE LET r == groupDoc(obj, entries[i])
       IN  IF r.tag = "throw" THEN r ELSE groupDocsFrom(entries, i + 1, r)

groupDocs(entries, groups) == groupDocsFrom(entries, 1, buildGroupsTemplate(groups))

(***************************************************************************)
(* Configurations and entries drawn for the grouper.                       *)
(***************************************************************************)
GroupNames == {"Day Helpers", "Week Helpers", "1"}
EntryCategories == {"Day Helpers", "1", "Misc", "constructor"}

DistinctSeqsUpTo(S, n) ==
  {s \in SeqsUpTo(S, n) : \A a, b \in DOMAIN s : a # b => s[a] # s[b]}

GDoc(name, category) == [type |-> "jsdoc", urlId |-> name, category |-> category]
GDocSet == {GDoc(n, c) : n \in {"addDays", "format"}, c \in EntryCategories}

(***************************************************************************)
(* SpecGroup: groupDocs on a drawn configuration and entry list.           *)
(***************************************************************************)
InitGroup ==
  /\ gGroups \in DistinctSeqsUpTo(GroupNames, MaxGroups)
  /\ gDocs \in SeqsUpTo(GDocSet, MaxDocs)
  /\ gOut = Undefined
  /\ gPc = "start"
  /\ TreeIdle
  /\ PipeIdle

GroupDocs ==
  /\ gPc = "start"
  /\ gOut' = groupDocs(gDocs, gGroups)
  /\ gPc' = "done"
  /\ UNCHANGED <<gGroups, gDocs, treeVars, pipeVars>>

NextGroup == GroupDocs

SpecGroup == InitGroup /\ [][NextGroup]_vars

(***************************************************************************)
(* SpecTree: paramsToTree on a drawn list, then on its own output.         *)
(***************************************************************************)
InitTree ==
  /\ tIn \in ParamLists
  /\ tOut = Undefined
  /\ tOut2 = Undefined
  /\ tPc = "start"
  /\ GroupIdle
  /\ PipeIdle

TreeOnce ==
  /\ tPc = "start"
  /\ tOut' = paramsToTree(tIn)
  /\ tPc' = "once"
  /\ UNCHANGED <<tIn, tOut2, groupVars, pipeVars>>

TreeTwice ==
  /\ tPc = "once"
  /\ tOut.tag # "throw"
  /\ tOut2' = paramsToTree(tOut)
  /\ tPc' = "twice"
  /\ UNCHANGED <<tIn, tOut, groupVars, pipeVars>>

NextTree == TreeOnce \/ TreeTwice

SpecTree == InitTree /\ [][NextTree]_vars

(***************************************************************************)
(* The Assembler: generateUsage (lines 172-190), generateSyntaxString      *)
(* (lines 192-197) and the map of generateDocsFromSource (lines 24-41).    *)
(***************************************************************************)
\* The text of a parameter name: its segments joined by dots.
RECURSIVE RenderName(_)
RenderName(name) ==
  IF Len(name) = 1 THEN name[1] ELSE name[1] \o "." \o RenderName(Tail(name))

\* lodash snakeCase on the function names of the model.
snakeCase(name) ==
  CASE name = "addDays" -> "add_days"
    [] name = "format" -> "format"
    [] name = "isToday" -> "is_today"
    [] name = "setYear" -> "set_year"

generateUsage(name) ==
  LET fileName == snakeCase(name)
  IN  [commonjs |-> [title |-> "CommonJS",
                     code |-> "var " \o name \o " = require('date-fns/" \o fileName \o "')"],
       umd |-> [title |-> "UMD",
                code |-> "var " \o name \o " = dateFns." \o name],
       es2015 |-> [title |-> "ES 2015",
                   code |-> "import " \o name \o " from 'date-fns/" \o fileName \o "'"]]

\* arg.optional ? `[${arg.name}]` : arg.name
argString(arg) ==
  IF arg.optional THEN "[" \o RenderName(arg.name) \o "]" ELSE RenderName(arg.name)

\* .join(', ')
RECURSIVE joinArgs(_)
joinArgs(args) ==
  IF Len(args) = 0 THEN ""
  ELSE IF Len(args) = 1 THEN argString(args[1])
  ELSE argString(args[1]) \o ", " \o joinArgs(Tail(args))

\* args.map(...) on a null args throws a TypeError
generateSyntaxString(name, args) ==
  IF args.tag # "array" THEN Throw("TypeError")
  ELSE [tag |-> "string", value |-> name \o "(" \o joinArgs(args.items) \o ")"]

\* The callback of jsDocs.map: one raw record to one entry, or the exception
\* paramsToTree or generateSyntaxString throws.
assembleDoc(doc) ==
  LET args == paramsToTree(doc.params)
      syntax == generateSyntaxString(doc.name, args)
  IN  IF args.tag = "throw" THEN args
      ELSE IF syntax.tag = "throw" THEN syntax
      ELSE [tag |-> "object",
            value |-> [type |-> "jsdoc",
                       urlId |-> doc.name,
                       category |-> doc.category,
                       title |-> doc.name,
                       description |-> doc.summary,
                       content |-> doc,
                       args |-> args,
                       usage |-> generateUsage(doc.name),
                       usageTabs |-> <<"commonjs", "umd", "es2015">>,
                       syntax |-> syntax.value]]

RECURSIVE assembleDocsFrom(_, _, _)
assembleDocsFrom(jsDocs, i, out) ==
  IF i > Len(jsDocs) THEN Arr(out)
  ELSE LET r == assembleDoc(jsDocs[i])
       IN  IF r.tag = "throw" THEN r
           ELSE assembleDocsFrom(jsDocs, i + 1, Append(out, r.value))

assembleDocs(jsDocs) == assembleDocsFrom(jsDocs, 1, <<>>)

(***************************************************************************)
(* The Static Doc Injector (lines 55-62, 125-134) and the Writer           *)
(* (lines 75-78).                                                          *)
(***************************************************************************)
\* docContent.toString() of the file at a descriptor's path
ContentOf(path) == "# " \o path

\* Object.assign({ content }, staticDoc)
withContent(staticDoc) ==
  [type |-> staticDoc.type, urlId |-> staticDoc.urlId,
   category |-> staticDoc.category, title |-> staticDoc.title,
   path |-> staticDoc.path, content |-> ContentOf(staticDoc.path)]

\* docsFileObj[staticDoc.category].push(staticDoc)
\* (variant that puts the document first)
injectStaticDocFirst(obj, staticDoc) ==
  LET pushed == pushPrepend(Get(obj, staticDoc.category), staticDoc)
  IN  IF pushed.tag = "throw" THEN pushed
      ELSE Set(obj, staticDoc.category, pushed)
injectStaticDoc(obj, staticDoc) ==
  LET pushed == push(Get(obj, staticDoc.category), staticDoc)
  IN  IF pushed.tag = "throw" THEN pushed
      ELSE Set(obj, staticDoc.category, pushed)

\* staticDocs.forEach(...)
RECURSIVE injectFrom(_, _, _)
injectFrom(list, i, obj) ==
  IF i > Len(list) THEN obj
  ELSE LET r == injectStaticDoc(obj, list[i])
       IN  IF r.tag = "throw" THEN r ELSE injectFrom(list, i + 1, r)

\* JSON.stringify(docsFileObj): the own keys in enumeration order, each with
\* its list
stringify(obj) ==
  [tag |-> "json",
   members |-> [k \in 1..Len(OwnKeys(obj)) |->
                  [key |-> OwnKeys(obj)[k], value |-> obj.val[OwnKeys(obj)[k]].items]]]

(***************************************************************************)
(* The inputs of a run: the file list, the records the parsing engine can  *)
(* emit, and the documentation configuration (docsConfig).                 *)
(***************************************************************************)
Files == 1..NumFiles

RawDoc(name, category, summary, params) ==
  [name |-> name, category |-> category, summary |-> summary, params |-> params]

RecordSet ==
  { RawDoc("addDays", "Day Helpers", "Add days.",
           Arr(<<Param(<<"date">>, FALSE, FALSE), Param(<<"amount">>, FALSE, FALSE)>>)),
    RawDoc("format", "Misc", "Format the date.",
           Arr(<<Param(<<"date">>, FALSE, FALSE), Param(<<"options">>, TRUE, FALSE),
                 Param(<<"options", "locale">>, TRUE, FALSE)>>)),
    RawDoc("isToday", "Day Helpers", "Is it today?", Undefined),
    RawDoc("setYear", "Day Helpers", "Set the year.",
           Arr(<<Param(<<"date">>, FALSE, FALSE),
                 Param(<<"options", "year">>, FALSE, FALSE)>>)) }

\* docsConfig.groups
ConfigGroups == <<"General", "Day Helpers">>

StaticDoc(urlId, category, path) ==
  [type |-> "markdown", urlId |-> urlId, category |-> category,
   title |-> urlId, path |-> path]

StaticDocSet ==
  { StaticDoc("Getting-Started", "General", "docs/getting_started.md"),
    StaticDoc("Time-Zones", "Day Helpers", "docs/time_zones.md"),
    StaticDoc("Change-Log", "Misc", "CHANGELOG.md") }

(***************************************************************************)
(* Spec: the pipeline of lines 10-14.                                      *)
(***************************************************************************)
InitPipe ==
  /\ pc = "extract"
  /\ fileIdx = 1
  /\ stream = [f \in Files |-> "idle"]
  /\ data = [f \in Files |-> <<>>]
  /\ acc = <<>>
  /\ docs = <<>>
  /\ docsFileObj = Undefined
  /\ staticDocs \in DistinctSeqsUpTo(StaticDocSet, MaxStatic)
  /\ reads = [j \in DOMAIN staticDocs |-> "idle"]
  /\ err = NoError
  /\ exitStatus = 0
  /\ outFile = Undefined
  /\ TreeIdle
  /\ GroupIdle

Fail(error, stage) == [error |-> error, stage |-> stage]

\* The fold of lines 20-23 chains the extraction of file f behind the promise
\* of the files before it: its callback runs once they have all resolved.
\* (variant that starts every extraction at once)
canStartAny(f) == TRUE
canStart(f) == f = fileIdx

\* promise.then(acc => generateDocFromSource(acc, file)): parseJSDoc opens
\* the stream of the file (line 85)
StartParser(f) ==
  /\ pc = "extract"
  /\ canStart(f)
  /\ stream[f] = "idle"
  /\ stream' = [stream EXCEPT ![f] = "open"]
  /\ UNCHANGED <<pc, fileIdx, data, acc, docs, docsFileObj, staticDocs, reads,
                 err, exitStatus, outFile, treeVars, groupVars>>

RECURSIVE TotalLen(_, _)
TotalLen(d, S) ==
  IF S = {} THEN 0
  ELSE LET f == CHOOSE x \in S : TRUE IN Len(d[f]) + TotalLen(d, S \ {f})

\* stream.on('data', chunk => { data += chunk }) (lines 93-95): the text of
\* one more record arrives
StreamData(f, rec) ==
  /\ pc = "extract"
  /\ stream[f] = "open"
  /\ TotalLen(data, Files) < MaxRecords
  /\ data' = [data EXCEPT ![f] = Append(@, rec)]
  /\ UNCHANGED <<pc, fileIdx, stream, acc, docs, docsFileObj, staticDocs, reads,
                 err, exitStatus, outFile, treeVars, groupVars>>

\* stream.on('end', () => resolve(JSON.parse(data))) and
\* .then(doc => acc.concat(doc)) (lines 96-97). The buffered text is the JSON
\* array the engine printed: data[f] is the list of records it denotes.
StreamEnd(f) ==
  /\ pc = "extract"
  /\ stream[f] = "open"
  /\ stream' = [stream EXCEPT ![f] = "ended"]
  /\ acc' = acc \o data[f]
  /\ fileIdx' = fileIdx + 1
  /\ UNCHANGED <<pc, data, docs, docsFileObj, staticDocs, reads,
                 err, exitStatus, outFile, treeVars, groupVars>>

\* stream.on('error', err => { console.error(err); process.exit(1) })
\* (lines 88-91)
StreamError(f) ==
  /\ pc = "extract"
  /\ stream[f] = "open"
  /\ stream' = [stream EXCEPT ![f] = "error"]
  /\ err' = Fail("StreamError", "extract")
  /\ pc' = "exited"
  /\ exitStatus' = 1
  /\ UNCHANGED <<fileIdx, data, acc, docs, docsFileObj, staticDocs, reads,
                 outFile, treeVars, groupVars>>

\* .then(jsDocs => jsDocs.map(...)) (lines 24-41), run when the fold has
\* resolved; an exception in the callback rejects the chain
Assemble ==
  /\ pc = "extract"
  /\ fileIdx > NumFiles
  /\ LET r == assembleDocs(acc)
     IN  IF r.tag = "throw"
           THEN /\ pc' = "rejected"
                /\ err' = Fail(r.error, "assemble")
                /\ docs' = docs
           ELSE /\ pc' = "group"
                /\ err' = err
                /\ docs' = r.items
  /\ UNCHANGED <<fileIdx, stream, data, acc, docsFileObj, staticDocs, reads,
                 exitStatus, outFile, treeVars, groupVars>>

\* .then(generatedDocsObj) (lines 47-49)
GeneratedDocsObj ==
  /\ pc = "group"
  /\ LET r == groupDocs(docs, ConfigGroups)
     IN  IF r.tag = "throw"
           THEN /\ pc' = "rejected"
                /\ err' = Fail(r.error, "group")
                /\ docsFileObj' = docsFileObj
           ELSE /\ pc' = "inject"
                /\ err' = err
                /\ docsFileObj' = r
  /\ UNCHANGED <<fileIdx, stream, data, acc, docs, staticDocs, reads,
                 exitStatus, outFile, treeVars, groupVars>>

\* .then(injectStaticDocsToDocsObj) calls getListOfStaticDocs, which starts
\* every read at once (lines 126-133)
GetListOfStaticDocs ==
  /\ pc = "inject"
  /\ reads' = [j \in DOMAIN staticDocs |-> "pending"]
  /\ pc' = "reading"
  /\ UNCHANGED <<fileIdx, stream, data, acc, docs, docsFileObj, staticDocs,
                 err, exitStatus, outFile, treeVars, groupVars>>

\* one fsp.readFile fulfils
ReadDone(j) ==
  /\ pc = "reading"
  /\ reads[j] = "pending"
  /\ reads' = [reads EXCEPT ![j] = "done"]
  /\ UNCHANGED <<pc, fileIdx, stream, data, acc, docs, docsFileObj, staticDocs,
                 err, exitStatus, outFile, treeVars, groupVars>>

\* one fsp.readFile rejects: Promise.all rejects with it
ReadFail(j) ==
  /\ pc = "reading"
  /\ reads[j] = "pending"
  /\ reads' = [reads EXCEPT ![j] = "failed"]
  /\ pc' = "rejected"
  /\ err' = Fail("ENOENT", "read")
  /\ UNCHANGED <<fileIdx, stream, data, acc, docs, docsFileObj, staticDocs,
                 exitStatus, outFile, treeVars, groupVars>>

\* Promise.all fulfils once every read has
\* (variant that does not wait for the reads)
allReadsSkipped(rs) == TRUE
allReadsDone(rs) == \A j \in DOMAIN rs : rs[j] = "done"

\* The callback of lines 56-61: Promise.all hands the documents over in the
\* order of the descriptors, whatever order the reads finished in.
InjectStaticDocs ==
  /\ pc = "reading"
  /\ allReadsDone(reads)
  /\ LET list == [j \in DOMAIN staticDocs |-> withContent(staticDocs[j])]
         r == injectFrom(list, 1, docsFileObj)
     IN  IF r.tag = "throw"
           THEN /\ pc' = "rejected"
                /\ err' = Fail(r.error, "inject")
                /\ docsFileObj' = docsFileObj
           ELSE /\ pc' = "write"
                /\ err' = err
                /\ docsFileObj' = r
  /\ UNCHANGED <<fileIdx, stream, data, acc, docs, staticDocs, reads,
                 exitStatus, outFile, treeVars, groupVars>>

\* .then(writeDocsFile): fsp.writeFile is started (lines 75-78)
WriteDocsFile ==
  /\ pc = "write"
  /\ pc' = "writing"
  /\ UNCHANGED <<fileIdx, stream, data, acc, docs, docsFileObj, staticDocs, reads,
                 err, exitStatus, outFile, treeVars, groupVars>>

\* the write fulfils; nothing is left to run and the process ends with 0
WriteDone ==
  /\ pc = "writing"
  /\ outFile' = stringify(docsFileObj)
  /\ pc' = "done"
  /\ UNCHANGED <<fileIdx, stream, data, acc, docs, docsFileObj, staticDocs, reads,
                 err, exitStatus, treeVars, groupVars>>

\* the write rejects; what it leaves on disk is not determined by the script
WriteFail ==
  /\ pc = "writing"
  /\ outFile' \in {Undefined, [tag |-> "truncated"]}
  /\ pc' = "rejected"
  /\ err' = Fail("EIO", "write")
  /\ UNCHANGED <<fileIdx, stream, data, acc, docs, docsFileObj, staticDocs, reads,
                 exitStatus, treeVars, groupVars>>

\* .catch(reportErrors) (lines 67-70)
reportErrors ==
  /\ pc = "rejected"
  /\ pc' = "exited"
  /\ exitStatus' = 1
  /\ UNCHANGED <<fileIdx, stream, data, acc, docs, docsFileObj, staticDocs, reads,
                 err, outFile, treeVars, groupVars>>

NextPipe ==
  \/ \E f \in Files : StartParser(f)
  \/ \E f \in Files, rec \in RecordSet : StreamData(f, rec)
  \/ \E f \in Files : StreamEnd(f)
  \/ \E f \in Files : StreamError(f)
  \/ Assemble
  \/ GeneratedDocsObj
  \/ GetListOfStaticDocs
  \/ \E j \in DOMAIN staticDocs : ReadDone(j)
  \/ \E j \in DOMAIN staticDocs : ReadFail(j)
  \/ InjectStaticDocs
  \/ WriteDocsFile
  \/ WriteDone
  \/ WriteFail
  \/ reportErrors

\* The pipeline, together with the tree builder on every drawn list.
Init == InitPipe \/ InitTree
Next == NextPipe \/ NextTree
Spec == Init /\ [][Next]_vars

(***************************************************************************)
(* Claims about paramsToTree (checked under SpecTree).                     *)
(***************************************************************************)
\* The increasing enumeration of a finite set of indices.
IdxSeq(S) ==
  CHOOSE s \in [1..Cardinality(S) -> S] :
    \A a, b \in 1..Cardinality(S) : a < b => s[a] < s[b]

\* A flat list as the parser emits it: nothing reparented yet.
IsFlat(in) ==
  \A i \in DOMAIN in : ~in[i].isProperty /\ in[i].props = Undefined

NoDots(in) == \A i \in DOMAIN in : Len(in[i].name) = 1

\* One level of dotted nesting, every dotted name's prefix names a parameter.
OneLevelResolved(in) ==
  /\ IsFlat(in)
  /\ \A i \in DOMAIN in : Len(in[i].name) <= 2
  /\ \A i \in DOMAIN in :
       Len(in[i].name) = 2 =>
         \E j \in DOMAIN in : in[j].name = <<in[i].name[1]>>

\* The dotted parameters whose parent is in[i]: the prefix is in[i]'s name and
\* in[i] is the parameter the lookup resolves that name to.
ChildIdx(in, i) ==
  {j \in DOMAIN in :
     /\ Len(in[j].name) = 2
     /\ <<in[j].name[1]>> = in[i].name
     /\ \A m \in DOMAIN in : in[m].name = in[i].name => m <= i}

ShortenedChild(c) == [c EXCEPT !.name = <<c.name[2]>>, !.isProperty = TRUE]

ExpectedNode(in, i) ==
  LET cs == IdxSeq(ChildIdx(in, i))
  IN  [in[i] EXCEPT !.props =
         IF Len(cs) = 0 THEN Undefined
         ELSE Arr([n \in 1..Len(cs) |-> ShortenedChild(in[cs[n]])])]

ExpectedTree(in) ==
  LET tops == IdxSeq({i \in DOMAIN in : Len(in[i].name) = 1})
  IN  [k \in 1..Len(tops) |-> ExpectedNode(in, tops[k])]

\* C5: for a flat list with one level of dotted nesting whose prefixes all
\* name a parameter of the list, the output's top level is the undotted
\* parameters in input order, and every dotted parameter sits in its parent's
\* props, in input order, unchanged but for name (the part after the dot) and
\* isProperty (true).
C5_OneLevelNesting ==
  (tPc # "start" /\ tIn.tag = "array" /\ OneLevelResolved(tIn.items)) =>
     tOut = Arr(ExpectedTree(tIn.items))

C5_Witness ==
  /\ tPc = "once" /\ tIn.tag = "array" /\ OneLevelResolved(tIn.items)
  /\ tOut.tag = "array" /\ Len(tOut.items) = 1 /\ Len(tIn.items) = 3
  /\ tOut.items[1].props.tag = "array"
  /\ Len(tOut.items[1].props.items) = 2
  /\ tOut.items[1].props.items[1].name = <<"locale">>
  /\ tOut.items[1].props.items[2].name = <<"year">>

\* C6: for a flat list without dotted names the output has the input's
\* length and no parameter has gained a props field.
C6_NoDotsUnchanged ==
  (tPc # "start" /\ tIn.tag = "array" /\ IsFlat(tIn.items) /\ NoDots(tIn.items)) =>
     /\ tOut.tag = "array"
     /\ Len(tOut.items) = Len(tIn.items)
     /\ \A k \in DOMAIN tOut.items : tOut.items[k].props = Undefined

C6_Witness ==
  /\ tPc = "once" /\ tIn.tag = "array"
  /\ IsFlat(tIn.items) /\ NoDots(tIn.items)
  /\ Len(tIn.items) >= 2 /\ tIn.items[1] # tIn.items[2]
  /\ tOut = tIn

\* C9: whenever paramsToTree succeeds, applying it to its own output changes
\* nothing.
C9_Idempotent == (tPc = "twice") => tOut2 = tOut

C9_Witness ==
  /\ tPc = "twice" /\ tIn.tag = "array" /\ tOut.tag = "array"
  /\ \E i \in DOMAIN tIn.items : shouldNest(tIn.items[i])
  /\ \E k \in DOMAIN tOut.items : tOut.items[k].props.tag = "array"
  /\ tOut2 = tOut

(***************************************************************************)
(* Claims about groupDocs (checked under SpecGroup).                       *)
(***************************************************************************)
Range(s) == {s[i] : i \in DOMAIN s}

EntriesOf(entries, c) == SelectSeq(entries, LAMBDA d : d.category = c)

\* The categories of the drawn entries that the configuration does not name.
UnconfiguredCategories == {gDocs[i].category : i \in DOMAIN gDocs} \ Range(gGroups)

C3_ConfiguredOrderAndPartition ==
  (gPc = "done" /\ UnconfiguredCategories = {}) =>
     /\ gOut.tag = "object"
     /\ OwnKeys(gOut) = gGroups
     /\ \A c \in Range(gGroups) : gOut.val[c] = Arr(EntriesOf(gDocs, c))

\* What remains of C3 when no configured name is a canonical array index:
\* the keys are then enumerated in configured order.
OrdinaryGroupsKeepOrder ==
  (/\ gPc = "done" /\ UnconfiguredCategories = {}
   /\ \A c \in Range(gGroups) : ~IsArrayIndex(c)) =>
     /\ gOut.tag = "object"
     /\ OwnKeys(gOut) = gGroups
     /\ \A c \in Range(gGroups) : gOut.val[c] = Arr(EntriesOf(gDocs, c))

(***************************************************************************)
(* Claims about the pipeline (checked under Spec).                         *)
(***************************************************************************)
\* The callback of lines 24-41 has run.
Assembled == pc \notin {"idle", "extract"} /\ err.stage # "extract"

\* The run has ended through reportErrors or is about to: the chain is
\* rejected and only the handler is left to run, or the process has exited
\* with status 1.
Aborting ==
  \/ pc = "exited" /\ exitStatus = 1
  \/ pc = "rejected" /\ ENABLED reportErrors

\* C1: once a stage before the Writer has failed (a stream error, an
\* exception while assembling or grouping, a failed static read, a category
\* lookup fault), the run ends with exit status 1 and the output file is never
\* written; the file exists only when every stream has ended, the mapping has
\* been built and every static read has completed.
C1_FailureNeverWrites ==
  /\ err.stage \in {"extract", "assemble", "group", "read", "inject"} =>
       outFile = Undefined /\ Aborting
  /\ outFile # Undefined =>
       /\ \A f \in Files : stream[f] = "ended"
       /\ docsFileObj.tag = "object"
       /\ \A j \in DOMAIN reads : reads[j] = "done"
       /\ err.stage \in {"none", "write"}

C1_Witness ==
  /\ pc = "exited" /\ exitStatus = 1 /\ outFile = Undefined
  /\ err = [error |-> "StreamError", stage |-> "extract"]
  /\ stream[1] = "ended" /\ stream[2] = "error"
  /\ Len(acc) >= 1 /\ Len(data[2]) >= 1

StaticsOf(c) ==
  SelectSeq([j \in DOMAIN staticDocs |-> withContent(staticDocs[j])],
            LAMBDA d : d.category = c)

\* No source-derived entry stands after a static document.
StaticsLast(list) ==
  \A a, b \in DOMAIN list :
    (a < b /\ list[a].type = "markdown") => list[b].type # "jsdoc"

\* C4: in the final mapping (and in the file written from it) every
\* category's list is its source-derived entries followed by its static
\* documents, the latter in descriptor order, whatever order the reads
\* completed in.
C4_StaticDocsAfterEntries ==
  /\ pc \in {"write", "writing", "done"} =>
       \A c \in DOMAIN docsFileObj.val :
         /\ StaticsLast(docsFileObj.val[c].items)
         /\ docsFileObj.val[c].items = EntriesOf(docs, c) \o StaticsOf(c)
  /\ outFile.tag = "json" =>
       \A k \in DOMAIN outFile.members : StaticsLast(outFile.members[k].value)

C4_Witness ==
  /\ pc = "done" /\ outFile.tag = "json"
  /\ Len(staticDocs) = 2 /\ staticDocs[2].category = "Day Helpers"
  /\ staticDocs[1].category = "General"
  /\ \E k \in DOMAIN outFile.members :
       /\ outFile.members[k].key = "Day Helpers"
       /\ Len(outFile.members[k].value) = 3
       /\ outFile.members[k].value[2].type = "jsdoc"
       /\ outFile.members[k].value[3].type = "markdown"

\* An unmarked dotted name whose prefix names no parameter of the list.
HasOrphan(p) ==
  /\ p.tag = "array"
  /\ \E i \in DOMAIN p.items :
       /\ Len(p.items[i].name) >= 2
       /\ ~p.items[i].isProperty
       /\ \A j \in DOMAIN p.items : p.items[j].name # <<p.items[i].name[1]>>

\* C7 as stated: a record without a parameter list is assembled into an
\* entry with args = null and the run goes on to grouping.
C7_NullParamsAssembled ==
  (/\ Assembled
   /\ \E i \in DOMAIN acc : acc[i].params.tag \in {"undefined", "null"}
   /\ \A i \in DOMAIN acc : ~HasOrphan(acc[i].params)) =>
     /\ err.stage # "assemble"
     /\ Len(docs) = Len(acc)
     /\ \E k \in DOMAIN docs : docs[k].args = Null

RECURSIVE ConcatData(_, _)
ConcatData(d, n) == IF n = 0 THEN <<>> ELSE ConcatData(d, n - 1) \o d[n]

\* C8: at most one parsing stream is open at a time, the stream of a file is
\* opened only after those of all the files before it have ended and their
\* records have been appended, and the accumulator is the concatenation of
\* the per-file record lists in file-list order.
C8_SequentialFold ==
  pc # "idle" =>
    /\ Cardinality({f \in Files : stream[f] = "open"}) <= 1
    /\ \A f \in Files : stream[f] # "idle" => f <= fileIdx
    /\ \A f \in Files : f < fileIdx => stream[f] = "ended"
    /\ acc = ConcatData(data, fileIdx - 1)

C8_Witness ==
  /\ pc = "group" /\ fileIdx > NumFiles
  /\ Len(data[1]) = 2 /\ data[1][1] # data[1][2]
  /\ Len(data[2]) = 1 /\ data[2][1] # data[1][2]
  /\ acc = <<data[1][1], data[1][2], data[2][1]>>

\* C10: a parameter list with an unmarked dotted name whose prefix names no
\* parameter makes paramsToTree throw a TypeError; in the pipeline the
\* exception rejects the chain, reportErrors ends the run with exit status 1
\* and no output file is written.
C10_OrphanPrefixAborts ==
  /\ (tPc \in {"once", "twice"} /\ HasOrphan(tIn)) => tOut = Throw("TypeError")
  /\ (Assembled /\ \E i \in DOMAIN acc : HasOrphan(acc[i].params)) =>
       /\ err = [error |-> "TypeError", stage |-> "assemble"]
       /\ outFile = Undefined
       /\ Aborting

C10_Witness ==
  /\ pc = "exited" /\ exitStatus = 1 /\ outFile = Undefined
  /\ err = [error |-> "TypeError", stage |-> "assemble"]
  /\ Len(acc) = 2
  /\ ~HasOrphan(acc[1].params) /\ acc[1].params.tag = "array"
  /\ HasOrphan(acc[2].params)

====
